---- MODULE Spec2Model ----
(***************************************************************************)
(* gh_status: a sequential pipeline that reads a GitHub user's public      *)
(* repositories, files and events through a paginated REST client and      *)
(* writes inventory / todos / activity snapshots.                          *)
(*                                                                         *)
(* The module models                                                       *)
(*   - github_client.GitHubClient  (pagination, file / tree lookups,       *)
(*     close),                                                             *)
(*   - builder.build_inventory / build_todos / build_activity,             *)
(*   - writers.write_toml / write_html_wrapper,                            *)
(*   - cli.main (guards, orchestration, exit code).                        *)
(*                                                                         *)
(* Python values are tagged records: None, Str(lines) for a text (a        *)
(* sequence of lines) and List(items).  An exception is the name of its    *)
(* class, "none" when nothing was raised.  Every client and builder        *)
(* operator returns a record                                               *)
(*   [raised, value, log]                                                  *)
(* where log is the sequence of HTTP requests it issued.                   *)
(***************************************************************************)
EXTENDS Integers, Sequences, FiniteSets, TLC

VARIABLES
    cfg,        \* main: what argparse / os.environ / the clock / the disk give
    pc,         \* main: position in cli.main
    days_i,     \* main: index of the `for days in [7, 30]` loop
    client,     \* GitHubClient.client: "absent" (never built), "open", "closed"
    closes,     \* number of times the underlying CacheClient.close() ran
    requests,   \* sequence of HTTP requests issued so far
    files,      \* names of the files that exist in the output directory
    dirs,       \* directories created by main / write_toml
    steps,      \* the calls main has completed, in order: [op, res]
    exc,        \* the exception travelling out of the with-block, or "none"
    exit_code,  \* what main returned: 0 or 1, -1 while it has not returned
    inventory,  \* main's local `inventory`: Inventory.repo, <<>> before it is built
    todos,      \* main's local `todos`: Todos.repo, <<>> before it is built
    world,      \* pure-function specifications: the input drawn
    result      \* pure-function specifications: the value computed

vars == <<cfg, pc, days_i, client, closes, requests, files, dirs, steps, exc,
          exit_code, inventory, todos, world, result>>

mainVars == <<cfg, pc, days_i, client, closes, requests, files, dirs, steps,
              exc, exit_code, inventory, todos>>

(***************************************************************************)
(* Bounds and program constants                                            *)
(***************************************************************************)
MaxRepos == 4           \* repositories the API lists (SpecRepos, SpecBuild)
MaxFetchRepos == 2      \* repositories whose answers vary one by one (SpecBuild)
RepoPerPage == 2        \* repositories on one page of the listing
MaxPages == 3           \* pages of one paginated collection (SpecPaginated)
MaxPerPage == 2         \* items on one page (SpecPaginated)
MaxEvents == 2          \* events the API lists (SpecActivity)
StreakFirstDay == 56    \* first day of the active dates drawn (SpecStreak)
MaxStreakDays == 8      \* days the active dates are drawn from (SpecStreak)
HOT_REPO_COUNT == 3     \* builder.py:17
TARGET_HOUR == 17       \* cli.py:71

None == [tag |-> "None"]
Str(lines) == [tag |-> "str", lines |-> lines]
List(items) == [tag |-> "list", items |-> items]
Times == {1, 2, 3}      \* push timestamps, later = larger
Hours == {16, 17}       \* local hours: one off target, one on target

Min(a, b) == IF a <= b THEN a ELSE b

(***************************************************************************)
(* github_client.GitHubClient                                              *)
(***************************************************************************)

\* One HTTP response of a paginated collection: its status, its decoded JSON
\* list, and whether response.links holds a "next" relation.
PageOf(status, items, next) == [status |-> status, items |-> items, next |-> next]

\* _get_paginated, lines 51-65: the first GET, then the while loop over
\* "next" links.  raise_for_status() on a non-2xx page raises
\* httpx.HTTPStatusError, which the except clause logs; `items` is returned
\* as accumulated so far.  i is the page being requested.
RECURSIVE PageLoop(_, _, _)
PageLoop(pages, i, items) ==
    LET response == pages[i]
        log == [k \in 1..i |-> <<"page", k>>]
    IN  IF response.status # "ok"
        THEN [raised |-> "none", value |-> items, log |-> log]
        ELSE LET acc == items \o response.items
             IN  IF response.next
                 THEN PageLoop(pages, i + 1, acc)
                 ELSE [raised |-> "none", value |-> acc, log |-> log]

\* Mutant: the except clause drops what was accumulated.
GetPaginatedDropsPartial(cl, pages) ==
    IF cl # "open"
    THEN [raised |-> "RuntimeError", value |-> <<>>, log |-> <<>>]
    ELSE LET r == PageLoop(pages, 1, <<>>)
         IN  IF \E k \in 1..Len(r.log) : pages[k].status # "ok"
             THEN [r EXCEPT !.value = <<>>]
             ELSE r

\* _get_paginated, lines 45-65.
_get_paginated(cl, pages) ==
    IF cl # "open"
    THEN [raised |-> "RuntimeError", value |-> <<>>, log |-> <<>>]
    ELSE PageLoop(pages, 1, <<>>)

\* sorted(repos, key=lambda r: r.pushed_utc, reverse=True), line 93: a stable
\* sort, equal keys keep their input order also under reverse=True.
RECURSIVE InsertDesc(_, _)
InsertDesc(sorted, r) ==
    IF sorted = <<>> THEN <<r>>
    ELSE IF Head(sorted).pushed_utc >= r.pushed_utc
         THEN <<Head(sorted)>> \o InsertDesc(Tail(sorted), r)
         ELSE <<r>> \o sorted

RECURSIVE SortedByPushDesc(_)
SortedByPushDesc(repos) ==
    IF repos = <<>> THEN <<>>
    ELSE InsertDesc(SortedByPushDesc(SubSeq(repos, 1, Len(repos) - 1)),
                    repos[Len(repos)])

\* Mutant: the sort is ascending (reverse=True forgotten).
RECURSIVE InsertAsc(_, _)
InsertAsc(sorted, r) ==
    IF sorted = <<>> THEN <<r>>
    ELSE IF Head(sorted).pushed_utc <= r.pushed_utc
         THEN <<Head(sorted)>> \o InsertAsc(Tail(sorted), r)
         ELSE <<r>> \o sorted

RECURSIVE SortedByPushAsc(_)
SortedByPushAsc(repos) ==
    IF repos = <<>> THEN <<>>
    ELSE InsertAsc(SortedByPushAsc(SubSeq(repos, 1, Len(repos) - 1)),
                   repos[Len(repos)])

\* schemas.RepoInventoryItem built at lines 78-91: the detail fields default
\* to None.
RepoInventoryItem(item) ==
    [full |-> item.full_name, pushed_utc |-> item.pushed_at,
     readme |-> None, changelog |-> None, recent_files |-> None]

\* The for loop of lines 74-91: archived items are skipped.
RECURSIVE ReposOf(_)
ReposOf(repo_data) ==
    IF repo_data = <<>> THEN <<>>
    ELSE IF Head(repo_data).archived
         THEN ReposOf(Tail(repo_data))
         ELSE <<RepoInventoryItem(Head(repo_data))>> \o ReposOf(Tail(repo_data))

\* Mutant: get_public_repos sorts oldest push first.
GetPublicReposAscending(cl, pages) ==
    LET r == _get_paginated(cl, pages)
    IN  IF r.raised # "none" THEN r
        ELSE [r EXCEPT !.value = SortedByPushAsc(ReposOf(r.value))]

\* get_public_repos, lines 67-93.
get_public_repos(cl, pages) ==
    LET r == _get_paginated(cl, pages)
    IN  IF r.raised # "none" THEN r
        ELSE [r EXCEPT !.value = SortedByPushDesc(ReposOf(r.value))]

\* get_public_events, lines 95-102.
get_public_events(cl, pages) ==
    IF cl # "open"
    THEN [raised |-> "RuntimeError", value |-> <<>>, log |-> <<>>]
    ELSE _get_paginated(cl, pages)

\* get_file_content, lines 104-125.  response: [status, text].
get_file_content(cl, repo, path, response) ==
    IF cl # "open"
    THEN [raised |-> "RuntimeError", value |-> None, log |-> <<>>]
    ELSE LET log == << <<"contents", repo, path>> >>
         IN  IF response.status = "not_found"
             THEN [raised |-> "none", value |-> None, log |-> log]
             ELSE IF response.status # "ok"
             THEN [raised |-> "none", value |-> None, log |-> log]
             ELSE [raised |-> "none", value |-> response.text, log |-> log]

\* [item["path"] for item in tree if item.get("type") == "blob"], line 153.
RECURSIVE BlobPaths(_)
BlobPaths(tree) ==
    IF tree = <<>> THEN <<>>
    ELSE IF Head(tree).type = "blob"
         THEN <<Head(tree).path>> \o BlobPaths(Tail(tree))
         ELSE BlobPaths(Tail(tree))

\* get_recent_file_changes, lines 127-157.  commits / tree: the two
\* responses.  Status "http_error" makes raise_for_status raise
\* HTTPStatusError; "empty" is a JSON [] (IndexError at [0]); "no_key" is a
\* JSON object without the key read ("sha", "path": KeyError); "bad_body" is
\* a 2xx body that does not decode as JSON, so response.json() raises
\* ValueError.  The except clause names HTTPStatusError, IndexError and
\* KeyError only.
get_recent_file_changes(cl, repo, commits, tree) ==
    IF cl # "open"
    THEN [raised |-> "RuntimeError", value |-> None, log |-> <<>>]
    ELSE LET log1 == << <<"commits", repo>> >>
             log2 == log1 \o << <<"tree", repo>> >>
         IN  CASE commits.status \in {"http_error", "empty", "no_key"} ->
                    [raised |-> "none", value |-> None, log |-> log1]
               [] commits.status = "bad_body" ->
                    [raised |-> "ValueError", value |-> None, log |-> log1]
               [] OTHER ->
                    CASE tree.status \in {"http_error", "no_key"} ->
                           [raised |-> "none", value |-> None, log |-> log2]
                      [] tree.status = "bad_body" ->
                           [raised |-> "ValueError", value |-> None, log |-> log2]
                      [] OTHER ->
                           [raised |-> "none", value |-> List(BlobPaths(tree.tree)),
                            log |-> log2]

(***************************************************************************)
(* builder: helpers                                                        *)
(*                                                                         *)
(* A line of text is a sequence of tokens: "sp" (white space), "-", "*",   *)
(* "[ ]", "[x]", "[X]", "#", or any other string, a word.                  *)
(***************************************************************************)

RECURSIVE LStrip(_)
LStrip(line) ==
    IF line # <<>> /\ Head(line) = "sp" THEN LStrip(Tail(line)) ELSE line

RECURSIVE RStrip(_)
RStrip(line) ==
    IF line # <<>> /\ line[Len(line)] = "sp"
    THEN RStrip(SubSeq(line, 1, Len(line) - 1))
    ELSE line

\* str.strip()
Strip(line) == RStrip(LStrip(line))

\* _normalize_todo_line, lines 22-26: re.sub of
\*   ^\s*[-*]\s*(\[[ xX]\])?\s*
\* by "", then strip().  Without a list marker after the leading white space
\* the pattern does not match and the line is only stripped.
_normalize_todo_line(line) ==
    LET a == LStrip(line)
    IN  IF a = <<>> \/ Head(a) \notin {"-", "*"}
        THEN Strip(line)
        ELSE LET b == LStrip(Tail(a))
                 c == IF b # <<>> /\ Head(b) \in {"[ ]", "[x]", "[X]"}
                      THEN LStrip(Tail(b))
                      ELSE b
             IN  Strip(c)

\* _parse_todos_from_content, lines 29-36.
RECURSIVE _parse_todos_from_content(_)
_parse_todos_from_content(content) ==
    IF content = <<>> THEN <<>>
    ELSE LET normalized == _normalize_todo_line(Head(content))
         IN  IF normalized # <<>>
             THEN <<normalized>> \o _parse_todos_from_content(Tail(content))
             ELSE _parse_todos_from_content(Tail(content))

\* Python truthiness of an Optional[str]: None and "" are falsy.
Truthy(content) == content.tag = "str" /\ content.lines # <<>>

\* The list comprehension of lines 94-97 before the [:5] slice.  (The outer
\* readme_content.strip() only removes blank lines at both ends, which the
\* `if line.strip()` test drops anyway.)
RECURSIVE SynopsisLines(_)
SynopsisLines(content) ==
    IF content = <<>> THEN <<>>
    ELSE LET l == Strip(Head(content))
         IN  IF l # <<>> /\ Head(l) # "#"
             THEN <<l>> \o SynopsisLines(Tail(content))
             ELSE SynopsisLines(Tail(content))

\* Lines 94-98: capped at 5 lines.
Synopsis(content) ==
    LET all == SynopsisLines(content)
    IN  SubSeq(all, 1, Min(5, Len(all)))

(***************************************************************************)
(* builder.build_inventory                                                 *)
(*                                                                         *)
(* A world w is what the API answers:                                      *)
(*   w.pages            the pages of /users/<u>/repos                      *)
(*   w.repo[name]       [file : path -> response, commits, tree]           *)
(*   w.events           the pages of /users/<u>/events/public              *)
(***************************************************************************)

\* Mutant: an off-by-one slice, repos[:HOT_REPO_COUNT + 1].
HotRepoNamesOneMore(repos) ==
    {repos[i].full : i \in 1..Min(HOT_REPO_COUNT + 1, Len(repos))}

\* repos[:HOT_REPO_COUNT], line 48, as a set of names.
hot_repo_names(repos) ==
    {repos[i].full : i \in 1..Min(HOT_REPO_COUNT, Len(repos))}

\* Lines 55-57 for one hot repo: three client calls in a row; an exception
\* of one ends the sequence.
EnrichRepo(cl, w, repo) ==
    LET a == get_file_content(cl, repo.full, "README.md",
                            w.repo[repo.full].file["README.md"])
        b == get_file_content(cl, repo.full, "CHANGELOG.md",
                            w.repo[repo.full].file["CHANGELOG.md"])
        c == get_recent_file_changes(cl, repo.full, w.repo[repo.full].commits,
                                  w.repo[repo.full].tree)
    IN  IF a.raised # "none"
        THEN [raised |-> a.raised, value |-> repo, log |-> a.log]
        ELSE IF b.raised # "none"
        THEN [raised |-> b.raised, value |-> [repo EXCEPT !.readme = a.value],
              log |-> a.log \o b.log]
        ELSE [raised |-> c.raised,
              value |-> [repo EXCEPT !.readme = a.value,
                                     !.changelog = b.value,
                                     !.recent_files = c.value],
              log |-> a.log \o b.log \o c.log]

\* The for loop of lines 51-57, from repository i on.
RECURSIVE EnrichLoop(_, _, _, _, _, _)
EnrichLoop(cl, w, repos, hot, i, log) ==
    IF i > Len(repos)
    THEN [raised |-> "none", value |-> repos, log |-> log]
    ELSE IF repos[i].full \notin hot
    THEN EnrichLoop(cl, w, repos, hot, i + 1, log)
    ELSE LET e == EnrichRepo(cl, w, repos[i])
         IN  IF e.raised # "none"
             THEN [raised |-> e.raised, value |-> None, log |-> log \o e.log]
             ELSE EnrichLoop(cl, w, [repos EXCEPT ![i] = e.value], hot, i + 1,
                             log \o e.log)

\* build_inventory, lines 41-63.  The value is Inventory.repo.
build_inventory(cl, w) ==
    LET r == get_public_repos(cl, w.pages)
    IN  IF r.raised # "none"
        THEN [raised |-> r.raised, value |-> None, log |-> r.log]
        ELSE EnrichLoop(cl, w, r.value, hot_repo_names(r.value), 1, r.log)

(***************************************************************************)
(* builder.build_todos                                                     *)
(***************************************************************************)

\* todo_filenames, line 73.
todo_filenames == <<"docs/TODO.md", "TODO.md", "todo.md", "docs/ROADMAP.md">>

\* The inner for loop of lines 80-85, from candidate k on: the first truthy
\* content ends the loop.
RECURSIVE ProbeTodoFiles(_, _, _, _, _)
ProbeTodoFiles(cl, w, repo, k, log) ==
    IF k > Len(todo_filenames)
    THEN [raised |-> "none", value |-> None, log |-> log]
    ELSE LET c == get_file_content(cl, repo.full, todo_filenames[k],
                                 w.repo[repo.full].file[todo_filenames[k]])
         IN  IF c.raised # "none"
             THEN [raised |-> c.raised, value |-> None, log |-> log \o c.log]
             ELSE IF Truthy(c.value)
             THEN [raised |-> "none", value |-> c.value, log |-> log \o c.log]
             ELSE ProbeTodoFiles(cl, w, repo, k + 1, log \o c.log)

\* Lines 76-100 for one repository: the RepoTodosItem appended.
RepoTodos(cl, w, repo) ==
    LET p == ProbeTodoFiles(cl, w, repo, 1, <<>>)
        fetch == ~Truthy(repo.readme)
        rd == IF fetch
              THEN get_file_content(cl, repo.full, "README.md",
                                  w.repo[repo.full].file["README.md"])
              ELSE [raised |-> "none", value |-> repo.readme, log |-> <<>>]
        item == [full |-> repo.full,
                 todos |-> IF Truthy(p.value)
                           THEN List(_parse_todos_from_content(p.value.lines)) ELSE None,
                 synopsis |-> IF Truthy(rd.value)
                              THEN List(Synopsis(rd.value.lines)) ELSE None]
    IN  IF p.raised # "none" THEN [raised |-> p.raised, value |-> None, log |-> p.log]
        ELSE [raised |-> rd.raised, value |-> item, log |-> p.log \o rd.log]

\* The for loop of lines 75-100, from repository i on.
RECURSIVE TodosLoop(_, _, _, _, _, _)
TodosLoop(cl, w, repos, i, out, log) ==
    IF i > Len(repos)
    THEN [raised |-> "none", value |-> out, log |-> log]
    ELSE LET t == RepoTodos(cl, w, repos[i])
         IN  IF t.raised # "none"
             THEN [raised |-> t.raised, value |-> None, log |-> log \o t.log]
             ELSE TodosLoop(cl, w, repos, i + 1, Append(out, t.value),
                            log \o t.log)

\* build_todos, lines 66-106.  inv is Inventory.repo; the value is Todos.repo.
build_todos(cl, w, inv) == TodosLoop(cl, w, inv, 1, <<>>, <<>>)

(***************************************************************************)
(* builder.build_activity                                                  *)
(*                                                                         *)
(* Time is counted in hours.  A datetime is [t, aware]: aware says whether *)
(* it carries a tzinfo.                                                    *)
(***************************************************************************)

\* datetime.utcnow(), line 116: a naive datetime.
UtcNow(now) == [t |-> now, aware |-> FALSE]

\* datetime.fromisoformat(e["created_at"].replace("Z", "+00:00")), line 125:
\* GitHub's "...Z" stamps parse to an aware datetime.
FromIsoformat(created_at) == [t |-> created_at, aware |-> TRUE]

\* datetime.__ge__: comparing a naive with an aware datetime raises TypeError.
DatetimeGe(a, b) ==
    IF a.aware # b.aware THEN "TypeError" ELSE a.t >= b.t

\* The list comprehension of lines 123-126.
RECURSIVE WindowEvents(_, _)
WindowEvents(all_events, window_start_utc) ==
    IF all_events = <<>> THEN [raised |-> "none", value |-> <<>>]
    ELSE LET keep == DatetimeGe(FromIsoformat(Head(all_events).created_at),
                                window_start_utc)
             rest == WindowEvents(Tail(all_events), window_start_utc)
         IN  IF keep = "TypeError"
             THEN [raised |-> "TypeError", value |-> <<>>]
             ELSE IF rest.raised # "none" THEN rest
             ELSE IF keep THEN [rest EXCEPT !.value = <<Head(all_events)>> \o @]
             ELSE rest

\* The calendar: hour 0 is 2024-01-01T00:00Z, a day is counted from
\* 2024-01-01 (day 0), DaysInMonth are the months of 2024 from January on.
DaysInMonth == <<31, 29, 31, 30>>

\* strftime("%Y-%m-%d"), line 136: the date string of a day, as
\* <<year, month, day>>.
RECURSIVE MonthDay(_, _)
MonthDay(n, m) ==
    IF n < DaysInMonth[m] THEN <<2024, m, n + 1>>
    ELSE MonthDay(n - DaysInMonth[m], m + 1)
strftime(day) == MonthDay(day, 1)

\* datetime.strptime(s, "%Y-%m-%d").date(), lines 147 and 149: the day of a
\* date string.
RECURSIVE DaysBefore(_)
DaysBefore(m) == IF m = 1 THEN 0 ELSE DaysBefore(m - 1) + DaysInMonth[m - 1]
strptime(s) == DaysBefore(s[2]) + s[3] - 1

\* Line 136: the local date string of a UTC time, for a zone utc_offset
\* hours from UTC.
LocalDay(t, utc_offset) == strftime((t + utc_offset) \div 24)

\* Order of the date strings: character by character, which for the
\* zero-padded fields is field by field.
StrLess(a, b) ==
    \/ a[1] < b[1]
    \/ a[1] = b[1] /\ a[2] < b[2]
    \/ a[1] = b[1] /\ a[2] = b[2] /\ a[3] < b[3]

\* sorted(events_by_local_day.keys()), line 142.
RECURSIVE SortedKeys(_)
SortedKeys(keys) ==
    IF keys = {} THEN <<>>
    ELSE LET least == CHOOSE x \in keys : \A y \in keys \ {x} : StrLess(x, y)
         IN  <<least>> \o SortedKeys(keys \ {least})

\* Lines 148-154: the loop over active_days[i] (i counted from 1 here), i
\* going down, until the first gap.
RECURSIVE StreakFrom(_, _, _, _)
StreakFrom(active_days, i, current_day, streak) ==
    IF i < 1 THEN streak
    ELSE LET prev_day == strptime(active_days[i])
         IN  IF current_day - prev_day = 1
             THEN StreakFrom(active_days, i - 1, prev_day, streak + 1)
             ELSE streak

\* Mutant: every active day counts, gap or no gap.
StreakCountsActiveDays(keys) == Cardinality(keys)

\* Lines 142-154; keys are the keys of events_by_local_day.
Streak(keys) ==
    LET active_days == SortedKeys(keys)
    IN  IF active_days = <<>> THEN 0
        ELSE StreakFrom(active_days, Len(active_days) - 1,
                        strptime(active_days[Len(active_days)]), 1)

\* Counter of lines 133-137 and most_common(1) of line 139: the day with the
\* highest count, the first counted among equals.
BusiestDay(days) ==
    IF days = <<>> THEN None
    ELSE LET count(d) == Cardinality({i \in 1..Len(days) : days[i] = d})
             first(d) == CHOOSE i \in 1..Len(days) :
                            days[i] = d /\ \A j \in 1..(i - 1) : days[j] # d
             best == CHOOSE d \in {days[i] : i \in 1..Len(days)} :
                        \A e \in {days[i] : i \in 1..Len(days)} :
                            \/ count(e) < count(d)
                            \/ count(e) = count(d) /\ first(d) <= first(e)
         IN  [tag |-> "day", day |-> best]

CountType(events, type) ==
    Cardinality({i \in 1..Len(events) : events[i].type = type})

\* build_activity, lines 109-222.  The value is the Activity's window,
\* summary and insights.
build_activity(cl, w, window_days) ==
    LET now_utc == UtcNow(w.now)
        window_start_utc == [now_utc EXCEPT !.t = @ - 24 * window_days]
        all == get_public_events(cl, w.events)
        win == WindowEvents(all.value, window_start_utc)
        ev == win.value
        days == [i \in 1..Len(ev) |-> LocalDay(ev[i].created_at, w.utc_offset)]
    IN  IF all.raised # "none"
        THEN [raised |-> all.raised, value |-> None, log |-> all.log]
        ELSE IF win.raised # "none"
        THEN [raised |-> win.raised, value |-> None, log |-> all.log]
        ELSE [raised |-> "none",
              value |-> [window_days |-> window_days,
                         events |-> Len(ev),
                         repos |-> Cardinality({ev[i].repo : i \in 1..Len(ev)}),
                         pushes |-> CountType(ev, "PushEvent"),
                         comments |-> CountType(ev, "IssueCommentEvent")
                                      + CountType(ev, "CommitCommentEvent"),
                         streak_days |-> Streak({days[i] : i \in 1..Len(days)}),
                         busiest_local_day |-> BusiestDay(days),
                         event |-> [i \in 1..Len(ev) |-> ev[i].id]],
              log |-> all.log]

(***************************************************************************)
(* writers                                                                 *)
(*                                                                         *)
(* fs is the set of file names in the output directory.  `io` says what   *)
(* the disk and the libraries do during the call.                          *)
(***************************************************************************)

\* toml_path.with_suffix(toml_path.suffix + ".html"), line 48.
HtmlPath(toml_path) == toml_path \o ".html"

\* Mutant: the except clause of write_toml re-raises.
WriteTomlRaises(fs, path, io) ==
    IF io = "ok"
    THEN [raised |-> "none", fs |-> fs \cup {path}, res |-> "ok"]
    ELSE [raised |-> "Exception",
          fs |-> IF io = "write_partial" THEN fs \cup {path} ELSE fs,
          res |-> "raised"]

\* write_toml, lines 21-38.  io: "ok", or the statement of the try block
\* that fails: "mkdir_error" (line 30), "dump_error" (lines 32-33),
\* "write_error" (line 35, the file cannot be opened), "write_partial"
\* (line 35, the file is created and the write then fails).  `except
\* Exception` logs and returns.
write_toml(fs, path, io) ==
    IF io = "ok"
    THEN [raised |-> "none", fs |-> fs \cup {path}, res |-> "ok"]
    ELSE [raised |-> "none",
          fs |-> IF io = "write_partial" THEN fs \cup {path} ELSE fs,
          res |-> "failed"]

\* Mutant: the FileNotFoundError clause re-raises like the generic one.
WriteHtmlWrapperRaisesOnMissing(fs, toml_path, io) ==
    IF io = "template_error"
    THEN [raised |-> "Exception", fs |-> fs, res |-> "raised"]
    ELSE IF toml_path \notin fs
    THEN [raised |-> "FileNotFoundError", fs |-> fs, res |-> "raised"]
    ELSE IF io # "ok"
    THEN [raised |-> "Exception", fs |-> fs, res |-> "raised"]
    ELSE [raised |-> "none", fs |-> fs \cup {HtmlPath(toml_path)}, res |-> "ok"]

\* write_html_wrapper, lines 41-63.  io: "ok", "template_error" (get_template,
\* line 50), "render_error" (lines 53-55), "write_error" (line 57).
\* read_text (line 51) raises FileNotFoundError when the source is not on
\* disk; that clause (lines 59-60) logs and returns, the generic clause
\* (lines 61-63) logs and re-raises.
write_html_wrapper(fs, toml_path, io) ==
    IF io = "template_error"
    THEN [raised |-> "Exception", fs |-> fs, res |-> "raised"]
    ELSE IF toml_path \notin fs
    THEN [raised |-> "none", fs |-> fs, res |-> "source_missing"]
    ELSE IF io # "ok"
    THEN [raised |-> "Exception", fs |-> fs, res |-> "raised"]
    ELSE [raised |-> "none", fs |-> fs \cup {HtmlPath(toml_path)}, res |-> "ok"]

TomlIo == {"ok", "mkdir_error", "dump_error", "write_error", "write_partial"}
HtmlIo == {"ok", "template_error", "render_error", "write_error"}

(***************************************************************************)
(* What the API can answer                                                 *)
(***************************************************************************)

TextReadme == Str(<< <<"#", "sp", "Title">>, <<>>, <<"sp", "about">> >>)
TextTodo == Str(<< <<"-", "sp", "[ ]", "sp", "Fix bug">>, <<"*">>, <<"later">> >>)
TextEmpty == Str(<<>>)

Paths == {"README.md", "CHANGELOG.md"}
             \cup {todo_filenames[k] : k \in 1..Len(todo_filenames)}

FileOk == [p \in Paths |->
             [status |-> "ok",
              text |-> IF p = "README.md" THEN TextReadme ELSE TextTodo]]
FileNotFound == [p \in Paths |-> [status |-> "not_found", text |-> TextEmpty]]
FileHttpError == [p \in Paths |-> [status |-> "http_error", text |-> TextEmpty]]
FileEmpty == [p \in Paths |-> [status |-> "ok", text |-> TextEmpty]]
FileRoadmapOnly ==
    [p \in Paths |-> IF p = "docs/ROADMAP.md" THEN FileOk[p] ELSE FileNotFound[p]]

\* docs/TODO.md exists and is empty, the other files are as in FileOk.
FileEmptyThenTodo ==
    [p \in Paths |-> IF p = "docs/TODO.md" THEN FileEmpty[p] ELSE FileOk[p]]

FileAnswers ==
    {FileOk, FileNotFound, FileHttpError, FileEmpty, FileRoadmapOnly,
     FileEmptyThenTodo}

CommitsOk == [status |-> "ok"]
CommitsAnswers ==
    {[status |-> x] : x \in {"ok", "http_error", "empty", "no_key", "bad_body"}}

TreeOk == [status |-> "ok",
           tree |-> << [path |-> "a.py", type |-> "blob"],
                       [path |-> "src", type |-> "tree"],
                       [path |-> "src/b.py", type |-> "blob"] >>]
TreeAnswers ==
    {TreeOk} \cup {[status |-> x, tree |-> <<>>] :
                      x \in {"http_error", "no_key", "bad_body"}}

\* What one repository answers: at most one of its endpoints deviates.
RepoAnswers ==
    {a \in [file : FileAnswers, commits : CommitsAnswers, tree : TreeAnswers] :
        Cardinality({x \in {1, 2, 3} :
            \/ x = 1 /\ a.file # FileOk
            \/ x = 2 /\ a.commits # CommitsOk
            \/ x = 3 /\ a.tree # TreeOk}) <= 1}

AnswerOk == [file |-> FileOk, commits |-> CommitsOk, tree |-> TreeOk]
AnswerAbsent == [file |-> FileNotFound, commits |-> [status |-> "empty"],
                 tree |-> TreeOk]

\* The pages of a listing of `items`, per_page on a page, page err (0: none)
\* answering with an HTTP error status.  An empty listing is one empty page.
MkPages(items, per_page, err) ==
    LET n == IF items = <<>> THEN 1
             ELSE (Len(items) + per_page - 1) \div per_page
    IN  [k \in 1..n |->
            PageOf(IF k = err THEN "http_error" ELSE "ok",
                   SubSeq(items, (k - 1) * per_page + 1,
                          Min(k * per_page, Len(items))),
                   k < n)]

\* The repository listings of n repositories named 1..n.
RepoListings(n) ==
    {[k \in 1..n |-> [full_name |-> k, pushed_at |-> f[k].pushed_at,
                      archived |-> f[k].archived]] :
        f \in [1..n -> [pushed_at : Times, archived : BOOLEAN]]}

\* n pages of up to MaxPerPage items each, any of them failing; item
\* <<k, j>> is the j-th of page k.
PageWorlds(n) ==
    {[k \in 1..n |->
         PageOf(f[k].status, [j \in 1..f[k].count |-> <<k, j>>], k < n)] :
       f \in [1..n -> [status : {"ok", "http_error"}, count : 0..MaxPerPage]]}

NoEvents == <<PageOf("ok", <<>>, FALSE)>>
Event(id, type, at) ==
    [id |-> id, type |-> type, repo |-> "u/r", created_at |-> at]

\* A world: the repository listing `pages`, the answers `repo` of each
\* repository, no events.
World(pages, repo) ==
    [pages |-> pages, repo |-> repo, events |-> NoEvents, now |-> 1000,
     utc_offset |-> -5]

\* n repositories pushed at the same time, none archived.
PlainListing(n) ==
    [k \in 1..n |-> [full_name |-> k, pushed_at |-> 1, archived |-> FALSE]]

\* Spec: what the API answers during one call of a full run.
MainRepoPages ==
    {MkPages(<<>>, RepoPerPage, 0),
     MkPages(PlainListing(1), RepoPerPage, 0),
     MkPages(PlainListing(1), RepoPerPage, 1)}
MainEventPages ==
    {NoEvents,
     <<PageOf("ok", <<Event(1, "PushEvent", 990)>>, FALSE)>>,
     <<PageOf("http_error", <<>>, FALSE)>>}
MainWorlds ==
    {[World(p, [k \in {1} |-> a]) EXCEPT !.events = e] :
        p \in MainRepoPages, a \in RepoAnswers, e \in MainEventPages}

(***************************************************************************)
(* cli.main                                                                *)
(*                                                                         *)
(* cfg: username, token (are they set, by flag or environment), tz_known   *)
(* (does pytz know TZ_NAME), hour (the local hour), force (--force),       *)
(* mkdir_ok (does output_dir.mkdir succeed), old_files (the files a        *)
(* previous run left in the output directory).                             *)
(***************************************************************************)

AllTomlPaths ==
    {"inventory.toml", "todos.toml", "latest-7d.toml", "latest-30d.toml"}

Configs ==
    [username : BOOLEAN, token : BOOLEAN, tz_known : BOOLEAN, hour : Hours,
     force : BOOLEAN, mkdir_ok : BOOLEAN,
     old_files : {{}, AllTomlPaths \cup {HtmlPath(p) : p \in AllTomlPaths}}]

\* Mutant: `and` for `or` in the credentials test of line 58.
GuardsNeedOneCredential(c) ==
    IF ~c.username /\ ~c.token THEN "missing_credentials"
    ELSE IF ~c.tz_known THEN "unknown_timezone"
    ELSE IF c.hour # TARGET_HOUR /\ ~c.force THEN "skip"
    ELSE "run"

\* Lines 58-77: the three early returns, in order.
Guards(c) ==
    IF ~c.username \/ ~c.token THEN "missing_credentials"
    ELSE IF ~c.tz_known THEN "unknown_timezone"
    ELSE IF c.hour # TARGET_HOUR /\ ~c.force THEN "skip"
    ELSE "run"

\* Mutant: the except clause logs and falls off the end of main (None, which
\* sys.exit turns into 0).
ReturnCodeAlwaysZero(e) == 0

\* Lines 108-112: return 0 after the with-block, return 1 in `except
\* Exception`.
ReturnCode(e) == IF e = "none" THEN 0 ELSE 1

\* GitHubClient.close, lines 159-164.
close(cl, n) ==
    IF cl = "open" THEN [client |-> "closed", closes |-> n + 1]
    ELSE [client |-> cl, closes |-> n]

\* Mutant: close() called as the last statement of the block instead of by
\* __exit__, so an exception skips it.
ClientExitOnSuccessOnly(cl, n, e) ==
    IF e = "none" THEN close(cl, n) ELSE [client |-> cl, closes |-> n]

\* GitHubClient.__exit__, lines 42-43: whatever exc_type is.
__exit__(cl, n, e) == close(cl, n)

\* Mutant: the loop of line 102 runs the long window first.
WindowsLongFirst == <<30, 7>>

\* `for days in [7, 30]`, line 102.
Windows == <<7, 30>>

\* f"latest-{days}d", line 105.
ActivityName(days) == IF days = 7 THEN "latest-7d" ELSE "latest-30d"

\* output_dir / f"{name}.toml", lines 90, 97, 105.
TomlPath(name) == name \o ".toml"

Step(op, arg, res) == [op |-> op, arg |-> arg, res |-> res]

\* Lines 54-83: configuration, the time guard, output_dir.mkdir.  mkdir is
\* outside the try block: when it fails the exception leaves main.
MainGuards ==
    /\ pc = "start"
    /\ LET g == Guards(cfg)
       IN  CASE g \in {"missing_credentials", "unknown_timezone"} ->
                   /\ exit_code' = 1
                   /\ pc' = "returned"
                   /\ UNCHANGED <<dirs, exc>>
             [] g = "skip" ->
                   /\ exit_code' = 0
                   /\ pc' = "returned"
                   /\ UNCHANGED <<dirs, exc>>
             [] OTHER ->
                   IF cfg.mkdir_ok
                   THEN /\ dirs' = dirs \cup {"output_dir"}
                        /\ pc' = "with"
                        /\ UNCHANGED <<exit_code, exc>>
                   ELSE /\ exc' = "OSError"
                        /\ pc' = "crashed"
                        /\ UNCHANGED <<exit_code, dirs>>
    /\ UNCHANGED <<cfg, days_i, client, closes, requests, files, steps,
                   inventory, todos, world, result>>

\* Line 86: GitHubClient(...) builds the CacheClient; __enter__ returns self.
EnterWith ==
    /\ pc = "with"
    /\ client' = "open"
    /\ pc' = "build_inventory"
    /\ UNCHANGED <<cfg, days_i, closes, requests, files, dirs, steps, exc,
                   exit_code, inventory, todos, world, result>>

\* A builder call inside the with-block: r is what it returned or raised.
AfterCall(op, arg, r, next) ==
    /\ requests' = requests \o r.log
    /\ steps' = Append(steps, Step(op, arg,
                                   IF r.raised = "none" THEN "ok" ELSE "raised"))
    /\ exc' = r.raised
    /\ pc' = IF r.raised = "none" THEN next ELSE "exit_with"

\* Line 89.
StepBuildInventory ==
    /\ pc = "build_inventory"
    /\ \E w \in MainWorlds :
          LET r == build_inventory(client, w)
          IN  /\ AfterCall("build", "inventory", r, "inventory_toml")
              /\ inventory' = IF r.raised = "none" THEN r.value ELSE inventory
    /\ UNCHANGED <<cfg, days_i, client, closes, files, dirs, exit_code, todos,
                   world, result>>

\* Line 96.
StepBuildTodos ==
    /\ pc = "build_todos"
    /\ \E w \in MainWorlds :
          LET r == build_todos(client, w, inventory)
          IN  /\ AfterCall("build", "todos", r, "todos_toml")
              /\ todos' = IF r.raised = "none" THEN r.value ELSE todos
    /\ UNCHANGED <<cfg, days_i, client, closes, files, dirs, exit_code,
                   inventory, world, result>>

\* Line 104, for days = Windows[days_i].
StepBuildActivity ==
    /\ pc = "build_activity"
    /\ \E w \in MainWorlds :
          LET r == build_activity(client, w, Windows[days_i])
          IN  AfterCall("build", ActivityName(Windows[days_i]), r,
                        "activity_toml")
    /\ UNCHANGED <<cfg, days_i, client, closes, files, dirs, exit_code,
                   inventory, todos, world, result>>

\* A writers.write_toml call: lines 91, 98, 106.
CallWriteToml(name, next) ==
    /\ \E io \in TomlIo :
          LET r == write_toml(files, TomlPath(name), io)
          IN  /\ files' = r.fs
              /\ steps' = Append(steps, Step("write_toml", name, r.res))
              /\ exc' = r.raised
              /\ pc' = IF r.raised = "none" THEN next ELSE "exit_with"
    /\ UNCHANGED <<cfg, client, closes, requests, dirs, exit_code, inventory,
                   todos, world, result>>

\* A writers.write_html_wrapper call: lines 92, 99, 107.
CallWriteHtml(name, next) ==
    /\ \E io \in HtmlIo :
          LET r == write_html_wrapper(files, TomlPath(name), io)
          IN  /\ files' = r.fs
              /\ steps' = Append(steps, Step("write_html", name, r.res))
              /\ exc' = r.raised
              /\ pc' = IF r.raised = "none" THEN next ELSE "exit_with"
    /\ UNCHANGED <<cfg, client, closes, requests, dirs, exit_code, inventory,
                   todos, world, result>>

\* Line 91.
StepWriteInventoryToml ==
    pc = "inventory_toml" /\ CallWriteToml("inventory", "inventory_html")
                          /\ UNCHANGED days_i

\* Line 92.
StepWriteInventoryHtml ==
    pc = "inventory_html" /\ CallWriteHtml("inventory", "build_todos")
                          /\ UNCHANGED days_i

\* Line 98.
StepWriteTodosToml ==
    pc = "todos_toml" /\ CallWriteToml("todos", "todos_html")
                      /\ UNCHANGED days_i

\* Line 99; then the for loop of line 102 starts.
StepWriteTodosHtml ==
    pc = "todos_html" /\ CallWriteHtml("todos", "build_activity")
                      /\ UNCHANGED days_i

\* Line 106.
StepWriteActivityToml ==
    pc = "activity_toml"
        /\ CallWriteToml(ActivityName(Windows[days_i]), "activity_html")
        /\ UNCHANGED days_i

\* Line 107; then the next window, or the end of the with-block.
StepWriteActivityHtml ==
    /\ pc = "activity_html"
    /\ CallWriteHtml(ActivityName(Windows[days_i]),
                     IF days_i < Len(Windows) THEN "build_activity"
                     ELSE "exit_with")
    /\ days_i' = IF days_i < Len(Windows) /\ pc' = "build_activity"
                 THEN days_i + 1 ELSE days_i

\* The end of the with-block, normal or by exception: __exit__ closes the
\* client, then line 109 returns 0 or lines 110-112 return 1.
ExitWith ==
    /\ pc = "exit_with"
    /\ LET c == __exit__(client, closes, exc)
       IN  /\ client' = c.client
           /\ closes' = c.closes
    /\ exit_code' = ReturnCode(exc)
    /\ pc' = "returned"
    /\ UNCHANGED <<cfg, days_i, requests, files, dirs, steps, exc, inventory,
                   todos, world, result>>

Init ==
    /\ cfg \in Configs
    /\ pc = "start"
    /\ days_i = 1
    /\ client = "absent"
    /\ closes = 0
    /\ requests = <<>>
    /\ files = cfg.old_files
    /\ dirs = {}
    /\ steps = <<>>
    /\ exc = "none"
    /\ exit_code = -1
    /\ inventory = <<>>
    /\ todos = <<>>
    /\ world = None
    /\ result = None

Next ==
    \/ MainGuards
    \/ EnterWith
    \/ StepBuildInventory
    \/ StepWriteInventoryToml
    \/ StepWriteInventoryHtml
    \/ StepBuildTodos
    \/ StepWriteTodosToml
    \/ StepWriteTodosHtml
    \/ StepBuildActivity
    \/ StepWriteActivityToml
    \/ StepWriteActivityHtml
    \/ ExitWith

Spec == Init /\ [][Next]_vars

(***************************************************************************)
(* Specifications of single client and builder calls: the input is drawn    *)
(* in the initial state (world), the call is one action (result).  The      *)
(* client is open, as it is inside the with-block of main.                  *)
(***************************************************************************)

Pending == [raised |-> "pending", value |-> None, log |-> <<>>]

\* The state before a single call: input w, d the index in Windows of the
\* window the call is for.
CallInitWindow(w, d) ==
    /\ world = w
    /\ result = Pending
    /\ pc = "call"
    /\ cfg = None
    /\ days_i = d
    /\ client = "open"
    /\ closes = 0
    /\ requests = <<>>
    /\ files = {}
    /\ dirs = {}
    /\ steps = <<>>
    /\ exc = "none"
    /\ exit_code = -1
    /\ inventory = <<>>
    /\ todos = <<>>

CallInit(w) == CallInitWindow(w, 1)

\* client._get_paginated(url) on the pages of `world`.
CallGetPaginated ==
    /\ pc = "call"
    /\ result' = _get_paginated(client, world)
    /\ requests' = requests \o result'.log
    /\ pc' = "done"
    /\ UNCHANGED <<cfg, days_i, client, closes, files, dirs, steps, exc,
                   exit_code, inventory, todos, world>>

\* Up to MaxPages pages.
InitPaginated ==
    \E n \in 1..MaxPages : \E pages \in PageWorlds(n) : CallInit(pages)
SpecPaginated == InitPaginated /\ [][CallGetPaginated]_vars

\* client.get_public_repos() on the listing of `world`.
CallGetPublicRepos ==
    /\ pc = "call"
    /\ result' = get_public_repos(client, world)
    /\ requests' = requests \o result'.log
    /\ pc' = "done"
    /\ UNCHANGED <<cfg, days_i, client, closes, files, dirs, steps, exc,
                   exit_code, inventory, todos, world>>

\* Every listing of up to MaxRepos repositories, RepoPerPage on a page,
\* any one page failing.
InitRepos ==
    \E n \in 0..MaxRepos : \E l \in RepoListings(n) :
        \E e \in 0..Len(MkPages(l, RepoPerPage, 0)) :
            CallInit(MkPages(l, RepoPerPage, e))
SpecRepos == InitRepos /\ [][CallGetPublicRepos]_vars

\* builder.build_inventory(client, username) against `world`.
CallBuildInventory ==
    /\ pc = "call"
    /\ result' = build_inventory(client, world)
    /\ requests' = requests \o result'.log
    /\ inventory' = IF result'.raised = "none" THEN result'.value ELSE inventory
    /\ pc' = IF result'.raised = "none" THEN "build_todos" ELSE "raised"
    /\ UNCHANGED <<cfg, days_i, client, closes, files, dirs, steps, exc,
                   exit_code, todos, world>>

\* builder.build_todos(client, inventory) against `world`.
CallBuildTodos ==
    /\ pc = "build_todos"
    /\ LET r == build_todos(client, world, inventory)
       IN  /\ todos' = IF r.raised = "none" THEN r.value ELSE todos
           /\ requests' = requests \o r.log
           /\ pc' = IF r.raised = "none" THEN "done" ELSE "raised"
    /\ UNCHANGED <<cfg, days_i, client, closes, files, dirs, steps, exc,
                   exit_code, inventory, world, result>>

\* Up to MaxRepos repositories answering alike, or up to MaxFetchRepos
\* answering each in its own way.
InitBuild ==
    \/ \E n \in 0..MaxRepos : \E l \in RepoListings(n) :
          \E a \in {AnswerOk, AnswerAbsent} :
             CallInit(World(MkPages(l, RepoPerPage, 0), [k \in 1..n |-> a]))
    \/ \E n \in 1..MaxFetchRepos : \E r \in [1..n -> RepoAnswers] :
          CallInit(World(MkPages(PlainListing(n), RepoPerPage, 0), r))
NextBuild == CallBuildInventory \/ CallBuildTodos
SpecBuild == InitBuild /\ [][NextBuild]_vars

\* builder.build_activity(client, username, tz_name, window_days) against
\* `world`, for the window Windows[days_i].
CallBuildActivity ==
    /\ pc = "call"
    /\ result' = build_activity(client, world, Windows[days_i])
    /\ requests' = requests \o result'.log
    /\ pc' = IF result'.raised = "none" THEN "done" ELSE "raised"
    /\ UNCHANGED <<cfg, days_i, client, closes, files, dirs, steps, exc,
                   exit_code, inventory, todos, world>>

\* Creation times of events, in hours: on and just before the start of the
\* 30-day and of the 7-day window, and now.
EventTimes(now) ==
    {now - 24 * 30 - 1, now - 24 * 30, now - 24 * 7 - 1, now - 24 * 7, now}
EventTypes == {"PushEvent", "IssueCommentEvent"}

\* The lists of n events with well-formed "...Z" creation times.
EventListings(n, now) ==
    {[i \in 1..n |-> Event(i, f[i].type, f[i].at)] :
        f \in [1..n -> [type : EventTypes, at : EventTimes(now)]]}

\* Up to MaxEvents events, MaxPerPage on a page, any one page failing,
\* either window.
InitActivity ==
    \E n \in 0..MaxEvents : \E l \in EventListings(n, World(<<>>, <<>>).now) :
        \E e \in 0..Len(MkPages(l, MaxPerPage, 0)) :
            \E d \in 1..Len(Windows) :
                CallInitWindow([World(MkPages(<<>>, RepoPerPage, 0), <<>>)
                                   EXCEPT !.events = MkPages(l, MaxPerPage, e)],
                               d)
SpecActivity == InitActivity /\ [][CallBuildActivity]_vars

\* Lines 142-154 of build_activity on the keys `world` of
\* events_by_local_day.
CallStreak ==
    /\ pc = "call"
    /\ result' = [raised |-> "none", value |-> Streak(world), log |-> <<>>]
    /\ pc' = "done"
    /\ UNCHANGED <<cfg, days_i, client, closes, requests, files, dirs, steps,
                   exc, exit_code, inventory, todos, world>>

\* The local dates of MaxStreakDays days in a row from StreakFirstDay
\* (2024-02-26) on, across the end of February.
StreakDates ==
    {strftime(n) : n \in StreakFirstDay..(StreakFirstDay + MaxStreakDays - 1)}

\* Any set of active dates among them.
InitStreak == \E keys \in SUBSET StreakDates : CallInit(keys)
SpecStreak == InitStreak /\ [][CallStreak]_vars

(***************************************************************************)
(* Properties of cli.main (Spec)                                           *)
(***************************************************************************)

GuardsPass ==
    cfg.username /\ cfg.token /\ cfg.tz_known /\ (cfg.hour = 17 \/ cfg.force)

SkippedByTimeGuard ==
    cfg.username /\ cfg.token /\ cfg.tz_known /\ cfg.hour # 17 /\ ~cfg.force

StepIndices == 1..Len(steps)

\* C1: unless username and token are present, the timezone is known and
\* (the local hour is 17 or --force is set), main creates no client, issues
\* no request, writes no file and no directory, runs no step of the
\* orchestration, and is either not started or has returned.
C1_NothingHappensUnlessGuardsPass ==
    ~GuardsPass =>
        /\ client = "absent"
        /\ closes = 0
        /\ requests = <<>>
        /\ files = cfg.old_files
        /\ dirs = {}
        /\ steps = <<>>
        /\ pc \in {"start", "returned"}

\* C1 witness: the time guard has skipped a run whose credentials and
\* timezone were fine.
C1_Witness ==
    pc = "returned" /\ SkippedByTimeGuard /\ client = "absent" /\ dirs = {}

RunSucceeded ==
    Len(steps) = 3 * 4 /\ \A i \in StepIndices : steps[i].res # "raised"

UncaughtFailure == \E i \in StepIndices : steps[i].res = "raised"

\* C2: when main has returned, its exit code is 0 exactly when the time
\* guard skipped the run or the build/write sequence ran to its end with no
\* exception leaving a step, and 1 exactly when a credential is missing,
\* the timezone is unknown, or an exception left a step of the sequence.
C2_ExitCode ==
    pc = "returned" =>
        /\ exit_code \in {0, 1}
        /\ exit_code = 0 <=> (SkippedByTimeGuard \/ RunSucceeded)
        /\ exit_code = 1 <=>
              \/ ~cfg.username
              \/ ~cfg.token
              \/ ~cfg.tz_known
              \/ UncaughtFailure

\* C2 witness: an exception left the second activity build, main returned 1.
C2_Witness ==
    /\ pc = "returned"
    /\ exit_code = 1
    /\ Len(steps) = 10
    /\ steps[10].res = "raised"

\* The source of the write_html_wrapper call recorded as step i was not on
\* disk.  (Files are never removed and each .toml is written by the one
\* write_toml call before its wrapper call, so it is missing now exactly
\* when it was missing then.)
SourceMissing(i) ==
    steps[i].op = "write_html" /\ TomlPath(steps[i].arg) \notin files

\* C3 as stated: a write_html_wrapper call whose source file does not exist
\* raises, it is the last step of the run, and main does not return 0.
C3_MissingSourceHalts ==
    \A i \in StepIndices :
        SourceMissing(i) =>
            /\ steps[i].res = "raised"
            /\ i = Len(steps)
            /\ pc \in {"exit_with", "returned"}
            /\ pc = "returned" => exit_code = 1

\* C3 amended: a missing source file is logged and swallowed.  The call
\* writes no .html file and, unless the template lookup before it failed
\* (the generic clause, never a FileNotFoundError leaving the call), it
\* returns normally: main goes on with the next step, and returns 0 when no
\* other step raises.
C3_MissingSourceSwallowed ==
    /\ exc # "FileNotFoundError"
    /\ \A i \in StepIndices :
          SourceMissing(i) =>
              /\ steps[i].res \in {"source_missing", "raised"}
              /\ HtmlPath(TomlPath(steps[i].arg)) \notin files
              /\ steps[i].res = "source_missing" /\ i = Len(steps) =>
                    /\ exc = "none"
                    /\ pc # "returned" \/ exit_code = 0
              /\ steps[i].res = "source_missing" /\ i < Len(steps) =>
                    steps[i + 1].op \in {"build", "write_toml"}

\* C3 witness: the inventory wrapper found no source, the run went on to
\* its end and main returned 0.
C3_Witness ==
    /\ pc = "returned"
    /\ exit_code = 0
    /\ Len(steps) = 3 * 4
    /\ steps[3].op = "write_html"
    /\ steps[3].res = "source_missing"

\* C4: a write_toml call never raises; when it failed, the next step of the
\* run is the wrapper call for the same snapshot.
C4_TomlFailureSwallowed ==
    \A i \in StepIndices :
        steps[i].op = "write_toml" =>
            /\ steps[i].res \in {"ok", "failed"}
            /\ i = Len(steps) =>
                  /\ exc = "none"
                  /\ pc \in {"inventory_html", "todos_html", "activity_html"}
            /\ i < Len(steps) =>
                  /\ steps[i + 1].op = "write_html"
                  /\ steps[i + 1].arg = steps[i].arg

\* C4 witness: writing inventory.toml failed and the run reached the TODOs.
C4_Witness ==
    /\ Len(steps) >= 4
    /\ steps[2].op = "write_toml"
    /\ steps[2].res = "failed"
    /\ steps[4].op = "build"
    /\ steps[4].arg = "todos"

ExpectedSteps ==
    << <<"build", "inventory">>, <<"write_toml", "inventory">>,
       <<"write_html", "inventory">>,
       <<"build", "todos">>, <<"write_toml", "todos">>,
       <<"write_html", "todos">>,
       <<"build", "latest-7d">>, <<"write_toml", "latest-7d">>,
       <<"write_html", "latest-7d">>,
       <<"build", "latest-30d">>, <<"write_toml", "latest-30d">>,
       <<"write_html", "latest-30d">> >>

\* C5: the steps a run has completed are a prefix of: build inventory,
\* write inventory.toml, its wrapper, build TODOs, write todos.toml, its
\* wrapper, build / write / wrap the 7-day snapshot, then the 30-day one
\* (so each happens at most once, in this order); and the TODOs are built
\* from the inventory built in the first step.
C5_StepOrder ==
    /\ Len(steps) <= Len(ExpectedSteps)
    /\ \A i \in StepIndices : <<steps[i].op, steps[i].arg>> = ExpectedSteps[i]
    /\ Len(steps) >= 4 /\ steps[4].res = "ok" =>
          /\ Len(todos) = Len(inventory)
          /\ \A i \in 1..Len(todos) : todos[i].full = inventory[i].full

\* C5 witness: a complete run over a non-empty inventory.
C5_Witness ==
    pc = "returned" /\ Len(steps) = Len(ExpectedSteps) /\ inventory # <<>>

\* C6: the client is closed at most once; it is open only inside the
\* with-block; and when main has returned after creating it, it is closed
\* (closed exactly once), also when a step raised.
C6_ClientReleased ==
    /\ closes <= 1
    /\ client = "open" => pc \notin {"start", "with", "returned", "crashed"}
    /\ client = "closed" <=> closes = 1
    /\ pc = "returned" /\ client # "absent" => client = "closed"
    /\ pc = "returned" /\ steps # <<>> => client = "closed"

\* C6 witness: a step raised, main returned, the client is closed.
C6_Witness ==
    pc = "returned" /\ exc # "none" /\ client = "closed" /\ closes = 1

(***************************************************************************)
(* Properties of the client and builder calls                              *)
(***************************************************************************)

\* The first page answering with an error status, 0 when there is none.
FirstErrorPage(pages) ==
    IF \A k \in 1..Len(pages) : pages[k].status = "ok" THEN 0
    ELSE CHOOSE k \in 1..Len(pages) :
            /\ pages[k].status # "ok"
            /\ \A j \in 1..(k - 1) : pages[j].status = "ok"

\* The pages whose items were received: all of them, or those before the
\* first error.
PagesReceived(pages) ==
    IF FirstErrorPage(pages) = 0 THEN Len(pages) ELSE FirstErrorPage(pages) - 1

\* C7: _get_paginated never raises on an HTTP error status; it returns the
\* items of exactly the pages before the first failing page (of all pages
\* when none fails), each once and in page order, and requests no page
\* after the failing one.
C7_PartialPages ==
    pc = "done" =>
        LET v == result.value
            m == PagesReceived(world)
        IN  /\ result.raised = "none"
            /\ {v[i] : i \in 1..Len(v)}
                  = UNION {{world[k].items[j] : j \in 1..Len(world[k].items)} :
                              k \in 1..m}
            /\ Len(v) = Cardinality({v[i] : i \in 1..Len(v)})
            /\ \A a, b \in 1..Len(v) :
                  a < b => \/ v[a][1] < v[b][1]
                           \/ v[a][1] = v[b][1] /\ v[a][2] < v[b][2]
            /\ Len(result.log)
                  = IF FirstErrorPage(world) = 0 THEN Len(world)
                    ELSE FirstErrorPage(world)

\* C7 witness: the third page failed after two pages with items.
C7_Witness ==
    /\ pc = "done"
    /\ FirstErrorPage(world) = 3
    /\ Len(result.value) = Len(world[1].items) + Len(world[2].items)
    /\ world[1].items # <<>>
    /\ world[2].items # <<>>

\* The raw items get_public_repos received: those of the pages before the
\* first failing page, in order.
RECURSIVE ItemsReceived(_, _)
ItemsReceived(pages, m) ==
    IF m = 0 THEN <<>> ELSE ItemsReceived(pages, m - 1) \o pages[m].items

\* C8 as stated: whatever the file, commit and tree lookups answer among
\* not found, an HTTP error status, an empty commit list and a malformed
\* body, build_inventory and build_todos do not raise: every lookup that
\* failed left None and every repository was processed.
C8_LookupFailuresNeverAbort ==
    /\ pc # "raised"
    /\ result.raised \in {"pending", "none"}
    /\ pc = "done" => Len(todos) = Len(inventory)

\* The repositories of the inventory (by position) for which
\* build_inventory requested the README.
HotIndices(inv, log) ==
    {i \in 1..Len(inv) :
        \E k \in 1..Len(log) : log[k] = <<"contents", inv[i].full, "README.md">>}

RequestsAbout(log, name) ==
    {k \in 1..Len(log) : Len(log[k]) >= 2 /\ log[k][1] # "page" /\ log[k][2] = name}

\* C9: when build_inventory has returned, the repositories it looked up
\* (README, CHANGELOG and commits, each requested once) number
\* min(HOT_REPO_COUNT, total); none of the others was pushed later than one
\* of them; and the others carry None for readme, changelog and
\* recent_files and no request was made about them.
C9_HotSubset ==
    pc \in {"build_todos", "done"} =>
        LET inv == result.value
            log == result.log
            hot == HotIndices(inv, log)
        IN  /\ Cardinality(hot) = Min(HOT_REPO_COUNT, Len(inv))
            /\ \A i \in hot :
                  /\ \A j \in (1..Len(inv)) \ hot :
                        inv[i].pushed_utc >= inv[j].pushed_utc
                  /\ {<<"contents", inv[i].full, "README.md">>,
                      <<"contents", inv[i].full, "CHANGELOG.md">>,
                      <<"commits", inv[i].full>>}
                        \subseteq {log[k] : k \in RequestsAbout(log, inv[i].full)}
                  /\ Cardinality(RequestsAbout(log, inv[i].full)) \in {3, 4}
            /\ \A j \in (1..Len(inv)) \ hot :
                  /\ inv[j].readme = None
                  /\ inv[j].changelog = None
                  /\ inv[j].recent_files = None
                  /\ RequestsAbout(log, inv[j].full) = {}

\* C9 witness: four repositories, three of them enriched with a README, a
\* changelog and a file list, the fourth left alone.
C9_Witness ==
    /\ pc = "build_todos"
    /\ Len(result.value) = 4
    /\ \A i \in 1..3 : /\ result.value[i].readme # None
                       /\ result.value[i].changelog # None
                       /\ result.value[i].recent_files # None
    /\ result.value[4].readme = None
    /\ result.value[4].pushed_utc < result.value[3].pushed_utc

\* C10: the list get_public_repos returns is non-increasing by push time,
\* holds no archived repository, and holds every non-archived repository
\* the API returned exactly once (and nothing else).
C10_SortedUnarchived ==
    pc = "done" =>
        LET v == result.value
            got == ItemsReceived(world, PagesReceived(world))
        IN  /\ result.raised = "none"
            /\ \A i \in 1..(Len(v) - 1) : v[i].pushed_utc >= v[i + 1].pushed_utc
            /\ \A k \in 1..Len(got) :
                  Cardinality({i \in 1..Len(v) :
                                  /\ v[i].full = got[k].full_name
                                  /\ v[i].pushed_utc = got[k].pushed_at})
                     = IF got[k].archived THEN 0 ELSE 1
            /\ Len(v) = Cardinality({k \in 1..Len(got) : ~got[k].archived})

\* C10 witness: a listing received out of push order with an archived
\* repository in it; three repositories are returned.
C10_Witness ==
    /\ pc = "done"
    /\ Len(result.value) = 3
    /\ \E k \in 1..Len(world[1].items) : world[1].items[k].archived
    /\ world[1].items[1].pushed_at < world[1].items[2].pushed_at
    /\ result.value[1].pushed_utc > result.value[3].pushed_utc

(***************************************************************************)
(* Properties of build_activity (SpecActivity)                             *)
(***************************************************************************)

\* The events the client hands to build_activity: those of the pages before
\* the first failing one.
FetchedEvents == get_public_events("open", world.events).value

\* The ids of the events of `events` created within [start, now].
RECURSIVE IdsWithin(_, _, _)
IdsWithin(events, start, now) ==
    IF events = <<>> THEN <<>>
    ELSE LET e == Head(events)
         IN  (IF start <= e.created_at /\ e.created_at <= now
              THEN <<e.id>> ELSE <<>>) \o IdsWithin(Tail(events), start, now)

\* C11: build_activity keeps exactly the fetched events created within
\* [now - window_days, now], and does so without failing, also when the
\* list of fetched events is not empty.
C11_WindowFilter ==
    pc # "call" =>
        /\ result.raised = "none"
        /\ result.value.event =
               IdsWithin(FetchedEvents, world.now - 24 * Windows[days_i],
                         world.now)

\* The part of C11 the code does satisfy: with no event fetched the filter
\* gives the empty list, with any event fetched the call raises TypeError.
C11_FilterRaisesOnAnyEvent ==
    pc # "call" =>
        IF FetchedEvents = <<>>
        THEN result.raised = "none" /\ result.value.event = <<>>
        ELSE result.raised = "TypeError"

(***************************************************************************)
(* Properties of the streak (SpecStreak)                                   *)
(***************************************************************************)

\* The days of the active dates.
ActiveDays == {strptime(s) : s \in world}

\* C12: streak_days is 0 for no active date; otherwise it is the length of
\* the run of consecutive calendar dates that ends at the latest active
\* date: every date of the run is active, the date before the run is not,
\* and active dates before that gap do not count.
C12_Streak ==
    pc = "done" =>
        IF world = {} THEN result.value = 0
        ELSE LET latest == CHOOSE d \in ActiveDays : \A e \in ActiveDays : e <= d
                 n == result.value
             IN  /\ n >= 1
                 /\ \A k \in 0..(n - 1) : latest - k \in ActiveDays
                 /\ latest - n \notin ActiveDays

\* A run of two dates across the end of February, a gap on 02-28, and an
\* active date before the gap.
C12_Witness ==
    /\ pc = "done"
    /\ world = {<<2024, 2, 27>>, <<2024, 2, 29>>, <<2024, 3, 1>>}
    /\ result.value = 2

(***************************************************************************)
(* Properties of build_todos (SpecBuild)                                   *)
(***************************************************************************)

\* The candidate files requested for repository `full`, in request order.
CandidateRequests(full) ==
    LET about(r) == /\ Len(r) = 3
                    /\ r[1] = "contents"
                    /\ r[2] = full
                    /\ \E k \in 1..Len(todo_filenames) : r[3] = todo_filenames[k]
        sel == SelectSeq(requests, about)
    IN  [k \in 1..Len(sel) |-> sel[k][3]]

\* The first candidate k of repository `full` that satisfies hit, 0 if none.
FirstCandidate(full, hit(_)) ==
    LET K == {k \in 1..Len(todo_filenames) :
                 hit(world.repo[full].file[todo_filenames[k]])}
    IN  IF K = {} THEN 0 ELSE CHOOSE k \in K : \A j \in K : k <= j

\* What C13 says of repository i when `first` is its first candidate
\* found: the candidates up to it were requested in order and no later
\* one, its lines are the TODO lines (none, or no record of lines, if it
\* has none), and without a found candidate all four were requested and
\* the record has no lines.
TodosFromCandidate(i, first) ==
    LET full == inventory[i].full
        last == IF first = 0 THEN Len(todo_filenames) ELSE first
        lines == IF first = 0 THEN <<>>
                 ELSE _parse_todos_from_content(
                          world.repo[full].file[todo_filenames[first]].text.lines)
    IN  /\ CandidateRequests(full) = SubSeq(todo_filenames, 1, last)
        /\ todos[i].full = full
        /\ IF lines = <<>> THEN todos[i].todos \in {None, List(<<>>)}
           ELSE todos[i].todos = List(lines)

\* A candidate is found when the request for it answers with the file.
Found(response) == response.status = "ok"

\* A candidate counts for the loop of build_todos when its content is not
\* empty.
FoundNonEmpty(response) == response.status = "ok" /\ Truthy(response.text)

\* C13: build_todos emits one record per inventory repository, in
\* inventory order; for each repository the candidates are requested in
\* the fixed order up to the first one found and no further, and the TODO
\* lines are those of that candidate.
C13_FirstFoundCandidate ==
    pc = "done" =>
        /\ Len(todos) = Len(inventory)
        /\ \A i \in 1..Len(inventory) :
              TodosFromCandidate(i, FirstCandidate(inventory[i].full, Found))

\* The part of C13 the code does satisfy: the same with "found" read as
\* "found with non-empty content".
C13_FirstNonEmptyCandidate ==
    pc = "done" =>
        /\ Len(todos) = Len(inventory)
        /\ \A i \in 1..Len(inventory) :
              TodosFromCandidate(i, FirstCandidate(inventory[i].full,
                                                   FoundNonEmpty))

====
